---- MODULE Spec2Model ----
(***************************************************************************)
(* Model of the Xiaomi STYJ02YM vacuum platform (mode-aware variant,       *)
(* custom_components/vacuum-styj02ym/vacuum.py).                            *)
(*                                                                         *)
(* One MiroboVacuum2 instance.  Its command coroutines run on the event    *)
(* loop (one synchronous segment at a time, variable loop); every raw      *)
(* command and update() run on executor threads, so they overlap with the  *)
(* event loop and with each other.                                         *)
(***************************************************************************)
EXTENDS Integers, Sequences, FiniteSets, TLC

VARIABLES
  vacuum_state,        \* self.vacuum_state: None or <<dict>>
  _available,          \* self._available
  _last_clean_point,   \* self._last_clean_point: None or <<x, y>>
  tasks,               \* the running calls of the command coroutines
  loop,                \* the call in the middle of a synchronous segment, or "free"
  upd                  \* position of the thread running update(), or how it ended

vars == <<vacuum_state, _available, _last_clean_point, tasks, loop, upd>>

-----------------------------------------------------------------------------
(* Bounds and input domains *)

MaxRepeats == 2        \* repeats given to clean_zone: 1..MaxRepeats

MaxRunState == 8       \* run_state codes the device reports: -1..MaxRunState

MaxSuction == 5        \* suction_grade values the device reports: 0..MaxSuction

(* the sources of concurrently running calls: the entity's own methods,     *)
(* async_service_handler for xiaomi_clean_zone / xiaomi_clean_point, and    *)
(* the reads of the entity's properties (state, fan_speed)                  *)
Tasks == {"entity", "service", "reader"}

None == <<>>

(* the (mode, is_mop) pairs the device reports: every mode class (room 0,   *)
(* zone 2, edge 3, point 4), with is_mop 2 and another value where the      *)
(* encoders look at is_mop                                                  *)
ModeMops == {<<0, 1>>, <<0, 2>>, <<2, 2>>, <<3, 1>>, <<4, 1>>, <<4, 2>>}

Points == {<<150, 200>>, <<10, 20>>}

ZoneInputs == {<<(<<0, 0, 100, 100>>)>>}

FanInputs == { <<"t", "u", "r", "b", "o">>, <<"7">>, <<"a", "b">> }

(* fan speeds given to set_fan_speed where the encoding itself is examined: *)
(* the four names, a name in mixed case, integers inside and outside the    *)
(* named levels, a signed integer, and inputs that are neither              *)
FanCodecInputs ==
  { <<"S", "i", "l", "e", "n", "t">>, <<"S", "t", "a", "n", "d", "a", "r", "d">>,
    <<"M", "e", "d", "i", "u", "m">>, <<"T", "u", "r", "b", "o">>,
    <<"t", "U", "R", "b", "o">>, <<"2">>, <<"5">>, <<"-", "1">>,
    <<"a", "b">>, <<>> }

RawInputs == { [command |-> "set_suction", params |-> <<1>>] }

Outcomes == {"ok", "DeviceException", "OSError"}

-----------------------------------------------------------------------------
(* Constants of the source *)

(* ALL_PROPS, cut down to the properties the model reads, in the order of  *)
(* the source; get_prop answers position by position in this order          *)
ALL_PROPS == <<"run_state", "mode", "suction_grade", "is_mop">>

FAN_SPEEDS == [k \in { <<"S", "i", "l", "e", "n", "t">>,
                       <<"S", "t", "a", "n", "d", "a", "r", "d">>,
                       <<"M", "e", "d", "i", "u", "m">>,
                       <<"T", "u", "r", "b", "o">> } |->
                 CASE k = <<"S", "i", "l", "e", "n", "t">> -> 0
                   [] k = <<"S", "t", "a", "n", "d", "a", "r", "d">> -> 1
                   [] k = <<"M", "e", "d", "i", "u", "m">> -> 2
                   [] OTHER -> 3]

(* variant of STATE_CODE_TO_STATE: the table without the two mop codes *)
STATE_CODE_TO_STATE_NoMop ==
  (0 :> "idle") @@ (1 :> "idle") @@ (2 :> "paused") @@ (3 :> "cleaning") @@
  (4 :> "returning") @@ (5 :> "docked")

STATE_CODE_TO_STATE ==
  (0 :> "idle") @@ (1 :> "idle") @@ (2 :> "paused") @@ (3 :> "cleaning") @@
  (4 :> "returning") @@ (5 :> "docked") @@ (6 :> "cleaning") @@ (7 :> "cleaning")

(* STATE_CODE_TO_STATE of the legacy variant (vacuum.py at the top level) *)
legacy_STATE_CODE_TO_STATE ==
  (1 :> "idle") @@ (2 :> "idle") @@ (3 :> "cleaning") @@ (4 :> "returning") @@
  (5 :> "docked")

-----------------------------------------------------------------------------
(* The device: what get_prop answers, position by position *)

DeviceState(m, k) ==
  [i \in 1..Len(ALL_PROPS) |-> IF i = 2 THEN m ELSE IF i = 4 THEN k ELSE 0]

DeviceStates == { DeviceState(mk[1], mk[2]) : mk \in ModeMops }

(* the answers where run_state or suction_grade varies *)
DeviceReport(run_state, suction_grade) ==
  [i \in 1..Len(ALL_PROPS) |-> IF i = 1 THEN run_state
                               ELSE IF i = 3 THEN suction_grade ELSE 0]

DeviceReports ==
  { DeviceReport(c, 0) : c \in (0 - 1)..MaxRunState } \cup
  { DeviceReport(0, s) : s \in 0..MaxSuction }

(* dict(zip(ALL_PROPS, state)) *)
DictZip(keys, vals) ==
  LET n == IF Len(keys) < Len(vals) THEN Len(keys) ELSE Len(vals)
  IN [name \in { keys[i] : i \in 1..n } |->
        vals[CHOOSE i \in 1..n : keys[i] = name /\ \A j \in 1..n : keys[j] = name => j <= i]]

Cmd(method, params) == [method |-> method, params |-> params]

-----------------------------------------------------------------------------
(* Text helpers: str.capitalize() and int() on strings, a string being a    *)
(* sequence of one-character strings                                        *)

LowerCase == <<"a", "b", "c", "d", "e", "f", "g", "h", "i", "j", "k", "l", "m",
               "n", "o", "p", "q", "r", "s", "t", "u", "v", "w", "x", "y", "z">>

UpperCase == <<"A", "B", "C", "D", "E", "F", "G", "H", "I", "J", "K", "L", "M",
               "N", "O", "P", "Q", "R", "S", "T", "U", "V", "W", "X", "Y", "Z">>

Digits == <<"0", "1", "2", "3", "4", "5", "6", "7", "8", "9">>

IndexIn(c, alphabet) ==
  IF \E i \in 1..Len(alphabet) : alphabet[i] = c
    THEN CHOOSE i \in 1..Len(alphabet) : alphabet[i] = c
    ELSE 0

Upper(c) == IF IndexIn(c, LowerCase) > 0 THEN UpperCase[IndexIn(c, LowerCase)] ELSE c

Lower(c) == IF IndexIn(c, UpperCase) > 0 THEN LowerCase[IndexIn(c, UpperCase)] ELSE c

(* str.capitalize(): first character upper-cased, the rest lower-cased *)
Capitalize(s) ==
  [i \in 1..Len(s) |-> IF i = 1 THEN Upper(s[i]) ELSE Lower(s[i])]

RECURSIVE DigitsValue(_)
DigitsValue(s) ==
  IF s = <<>> THEN 0
  ELSE 10 * DigitsValue(SubSeq(s, 1, Len(s) - 1)) + (IndexIn(s[Len(s)], Digits) - 1)

IsDigits(s) == Len(s) > 0 /\ \A i \in 1..Len(s) : IndexIn(s[i], Digits) > 0

(* int(s) raises ValueError unless s is an optionally signed run of digits *)
IntParses(s) ==
  \/ IsDigits(s)
  \/ Len(s) > 1 /\ s[1] \in {"-", "+"} /\ IsDigits(Tail(s))

IntValue(s) ==
  IF s[1] = "-" THEN 0 - DigitsValue(Tail(s))
  ELSE IF s[1] = "+" THEN DigitsValue(Tail(s))
  ELSE DigitsValue(s)

-----------------------------------------------------------------------------
(* Command encoding *)

(* async_start: the command chosen from mode, is_mop and the cached point *)
StartCommand(mode, is_mop, point) ==
  IF mode = 4 /\ point # None
    THEN Cmd("set_pointclean", <<1, point[1], point[2]>>)
    ELSE LET actionMode == IF mode = 2 THEN 2
                           ELSE IF is_mop = 2 THEN 3 ELSE is_mop
         IN IF mode = 3 THEN Cmd("set_mode", <<3, 1>>)
            ELSE Cmd("set_mode_withroom", <<actionMode, 1, 0>>)

(* variant of PauseCommand: the pause action code of the older protocol *)
PauseCommandCode2(mode, is_mop, point) ==
  IF mode = 4 /\ point # None
    THEN Cmd("set_pointclean", <<2, point[1], point[2]>>)
    ELSE LET actionMode == IF mode = 2 THEN 2
                           ELSE IF is_mop = 2 THEN 3 ELSE is_mop
         IN IF mode = 3 THEN Cmd("set_mode", <<3, 2>>)
            ELSE Cmd("set_mode_withroom", <<actionMode, 2, 0>>)

(* async_pause: as async_start, with action code 3 *)
PauseCommand(mode, is_mop, point) ==
  IF mode = 4 /\ point # None
    THEN Cmd("set_pointclean", <<3, point[1], point[2]>>)
    ELSE LET actionMode == IF mode = 2 THEN 2
                           ELSE IF is_mop = 2 THEN 3 ELSE is_mop
         IN IF mode = 3 THEN Cmd("set_mode", <<3, 3>>)
            ELSE Cmd("set_mode_withroom", <<actionMode, 3, 0>>)

(* async_stop: the command chosen from mode *)
StopCommand(mode) ==
  IF mode = 3 THEN Cmd("set_mode", <<3, 0>>)
  ELSE IF mode = 4 THEN Cmd("set_pointclean", <<0, 0, 0>>)
  ELSE Cmd("set_mode", <<0>>)

(* variant of StopPoint: the cached point survives a stop *)
StopPointKept(mode, point) == point

(* variant of StopPoint: every stop drops the cached point *)
StopPointCleared(mode, point) == None

(* async_stop: the cached point after the call *)
StopPoint(mode, point) == IF mode = 4 THEN None ELSE point

(* variant of FanSpeedCommands: the name is looked up as it was typed *)
FanSpeedCommandsExact(fan_speed) ==
  IF fan_speed \in DOMAIN FAN_SPEEDS
    THEN << Cmd("set_suction", <<FAN_SPEEDS[fan_speed]>>) >>
    ELSE IF IntParses(fan_speed)
           THEN << Cmd("set_suction", <<IntValue(fan_speed)>>) >>
           ELSE <<>>

(* async_set_fan_speed: the commands sent for an input; none when the input *)
(* is neither a named level nor an integer                                  *)
FanSpeedCommands(fan_speed) ==
  IF Capitalize(fan_speed) \in DOMAIN FAN_SPEEDS
    THEN << Cmd("set_suction", <<FAN_SPEEDS[Capitalize(fan_speed)]>>) >>
    ELSE IF IntParses(fan_speed)
           THEN << Cmd("set_suction", <<IntValue(fan_speed)>>) >>
           ELSE <<>>

(* variant of FanSpeedDecode: the levels are looked up one step higher *)
FanSpeedDecodeShifted(speed) ==
  IF speed \in { FAN_SPEEDS[k] : k \in DOMAIN FAN_SPEEDS }
    THEN CHOOSE key \in DOMAIN FAN_SPEEDS : FAN_SPEEDS[key] = (speed + 1) % 4
    ELSE speed

(* the fan_speed property: the name of a named level, else the raw value *)
FanSpeedDecode(speed) ==
  IF speed \in { FAN_SPEEDS[k] : k \in DOMAIN FAN_SPEEDS }
    THEN CHOOSE key \in DOMAIN FAN_SPEEDS : FAN_SPEEDS[key] = speed
    ELSE speed

(* the state property: STATE_CODE_TO_STATE[int(run_state)], a KeyError     *)
(* being caught and answered by None                                       *)
StateLookup(table, code) ==
  IF code \in DOMAIN table THEN << table[code] >> ELSE None

RECURSIVE JoinUnderscore(_)
JoinUnderscore(xs) ==
  IF Len(xs) = 1 THEN ToString(xs[1])
  ELSE ToString(Head(xs)) \o "_" \o JoinUnderscore(Tail(xs))

(* the string built for one zone when the running index is i *)
ZoneEntry(i, z) ==
  LET x1 == z[1]
      y2 == z[2]
      x2 == z[3]
      y1 == z[4]
  IN JoinUnderscore(<<i, 0, x1, y1, x1, y2, x2, y2, x2, y1>>)

(* async_clean_zone: the loop over the zones; res is built once per zone, *)
(* then appended repeats times while i advances                           *)
RECURSIVE ZoneLoop(_, _, _, _)
ZoneLoop(zone, repeats, i, result) ==
  IF zone = <<>> THEN <<i>> \o result
  ELSE LET res == ZoneEntry(i, Head(zone))
       IN ZoneLoop(Tail(zone), repeats, i + repeats,
                   result \o [k \in 1..repeats |-> res])

ZoneResult(zone, repeats) == ZoneLoop(zone, repeats, 0, <<>>)

(* async_clean_zone: the chain of raw commands *)
CleanZoneCommands(zone, repeats) ==
  << Cmd("set_uploadmap", <<1>>),
     Cmd("set_zone", ZoneResult(zone, repeats)),
     Cmd("set_mode", <<3, 1>>) >>

(* async_clean_point: the chain of raw commands *)
CleanPointCommands(point) ==
  << Cmd("set_uploadmap", <<0>>),
     Cmd("set_pointclean", <<1, point[1], point[2]>>) >>

(* _try_command: what the await of one raw command gives the coroutine *)
TryCommand(outcome) ==
  CASE outcome = "ok" -> "True"
    [] outcome = "DeviceException" -> "False"
    [] OTHER -> "raise"

(* variant of AndChain: the chain goes on whatever the step returned *)
AndChainAlways(ret, todo) == todo # <<>>

(* a and b and c: the next operand is evaluated only when this one is true *)
AndChain(ret, todo) == ret /\ todo # <<>>

-----------------------------------------------------------------------------
(* State *)

(* a call of a command coroutine:                                          *)
(*   pc    idle, read (between the two reads of self.vacuum_state), wait    *)
(*         (a raw command is on the executor), done                         *)
(*   mode  the local variable mode                                          *)
(*   sent  the raw commands handed to the executor, in order                *)
(*   todo  the raw commands the rest of the chain would send                *)
(*   rets  what _try_command returned for the commands answered so far      *)
(*   res   how the call ended: the value returned, or the exception raised  *)
(*   seen  between the two reads: the dict the first read subscripted       *)
(*   val   the value a property read returned, when it is not None          *)
(* for a property read, arg is the snapshot entry it read                   *)
IdleTask ==
  [op |-> "none", arg |-> None, pc |-> "idle", mode |-> 0,
   sent |-> <<>>, todo |-> <<>>, rets |-> <<>>, res |-> "pending",
   seen |-> None, val |-> None]

(* __init__ *)
Init ==
  /\ vacuum_state = None
  /\ _available = FALSE
  /\ _last_clean_point = None
  /\ tasks = [t \in Tasks |-> IdleTask]
  /\ loop = "free"
  /\ upd = "idle"

Snapshot == vacuum_state[1]

(* a new call can start where no call is running *)
Free(t) == loop = "free" /\ tasks[t].pc \in {"idle", "done"}

NewCall(op, arg) == [IdleTask EXCEPT !.op = op, !.arg = arg]

(* hand the first of cmds to the executor and suspend; return None when    *)
(* there is nothing to send                                                 *)
Submit(task, cmds) ==
  IF cmds = <<>>
    THEN [task EXCEPT !.pc = "done", !.res = "None"]
    ELSE [task EXCEPT !.pc = "wait", !.sent = Append(task.sent, Head(cmds)),
                      !.todo = Tail(cmds)]

(* the call ends by raising exc *)
Raise(task, exc) == [task EXCEPT !.pc = "done", !.res = exc]

-----------------------------------------------------------------------------
(* The command coroutines *)

(* async_start, first read: mode = self.vacuum_state['mode'] *)
async_start_read(t) ==
  /\ Free(t)
  /\ IF vacuum_state = None
       THEN /\ tasks' = [tasks EXCEPT ![t] = Raise(NewCall("start", None), "TypeError")]
            /\ UNCHANGED loop
       ELSE /\ tasks' = [tasks EXCEPT ![t] =
                 [NewCall("start", None) EXCEPT !.pc = "read", !.mode = Snapshot["mode"],
                                                !.seen = vacuum_state]]
            /\ loop' = t
  /\ UNCHANGED <<vacuum_state, _available, _last_clean_point, upd>>

(* async_start, the rest: is_mop = self.vacuum_state['is_mop'], the branch, *)
(* and the raw command handed to the executor                               *)
async_start_send(t) ==
  /\ loop = t
  /\ tasks[t].pc = "read" /\ tasks[t].op = "start"
  /\ tasks' = [tasks EXCEPT ![t] =
       Submit([@ EXCEPT !.seen = None],
              << StartCommand(@.mode, Snapshot["is_mop"], _last_clean_point) >>)]
  /\ loop' = "free"
  /\ UNCHANGED <<vacuum_state, _available, _last_clean_point, upd>>

async_start(t) == async_start_read(t) \/ async_start_send(t)

(* async_pause, first read *)
async_pause_read(t) ==
  /\ Free(t)
  /\ IF vacuum_state = None
       THEN /\ tasks' = [tasks EXCEPT ![t] = Raise(NewCall("pause", None), "TypeError")]
            /\ UNCHANGED loop
       ELSE /\ tasks' = [tasks EXCEPT ![t] =
                 [NewCall("pause", None) EXCEPT !.pc = "read", !.mode = Snapshot["mode"],
                                                !.seen = vacuum_state]]
            /\ loop' = t
  /\ UNCHANGED <<vacuum_state, _available, _last_clean_point, upd>>

(* async_pause, the rest *)
async_pause_send(t) ==
  /\ loop = t
  /\ tasks[t].pc = "read" /\ tasks[t].op = "pause"
  /\ tasks' = [tasks EXCEPT ![t] =
       Submit([@ EXCEPT !.seen = None],
              << PauseCommand(@.mode, Snapshot["is_mop"], _last_clean_point) >>)]
  /\ loop' = "free"
  /\ UNCHANGED <<vacuum_state, _available, _last_clean_point, upd>>

async_pause(t) == async_pause_read(t) \/ async_pause_send(t)

(* variant of async_stop: a missing snapshot is read as mode 0 *)
async_stop_default(t) ==
  /\ Free(t)
  /\ LET mode == IF vacuum_state = None THEN 0 ELSE Snapshot["mode"]
     IN /\ tasks' = [tasks EXCEPT ![t] =
               Submit([NewCall("stop", None) EXCEPT !.mode = mode], << StopCommand(mode) >>)]
        /\ _last_clean_point' = StopPoint(mode, _last_clean_point)
  /\ UNCHANGED <<vacuum_state, _available, loop, upd>>

(* variant of async_stop: the cached point is left for the answer to clear *)
async_stop_keeping(t) ==
  /\ Free(t)
  /\ IF vacuum_state = None
       THEN tasks' = [tasks EXCEPT ![t] = Raise(NewCall("stop", None), "TypeError")]
       ELSE tasks' = [tasks EXCEPT ![t] =
              Submit([NewCall("stop", None) EXCEPT !.mode = Snapshot["mode"]],
                     << StopCommand(Snapshot["mode"]) >>)]
  /\ UNCHANGED <<vacuum_state, _available, _last_clean_point, loop, upd>>

(* async_stop: one read of self.vacuum_state, the branch (which clears the *)
(* cached point under mode 4), and the raw command handed to the executor   *)
async_stop(t) ==
  /\ Free(t)
  /\ IF vacuum_state = None
       THEN /\ tasks' = [tasks EXCEPT ![t] = Raise(NewCall("stop", None), "TypeError")]
            /\ UNCHANGED _last_clean_point
       ELSE /\ tasks' = [tasks EXCEPT ![t] =
                 Submit([NewCall("stop", None) EXCEPT !.mode = Snapshot["mode"]],
                        << StopCommand(Snapshot["mode"]) >>)]
            /\ _last_clean_point' = StopPoint(Snapshot["mode"], _last_clean_point)
  /\ UNCHANGED <<vacuum_state, _available, loop, upd>>

async_set_fan_speed(t, fan_speed) ==
  /\ Free(t)
  /\ tasks' = [tasks EXCEPT ![t] =
       Submit(NewCall("set_fan_speed", fan_speed), FanSpeedCommands(fan_speed))]
  /\ UNCHANGED <<vacuum_state, _available, _last_clean_point, loop, upd>>

async_return_to_base(t) ==
  /\ Free(t)
  /\ tasks' = [tasks EXCEPT ![t] =
       Submit(NewCall("return_to_base", None), << Cmd("set_charge", <<1>>) >>)]
  /\ UNCHANGED <<vacuum_state, _available, _last_clean_point, loop, upd>>

async_locate(t) ==
  /\ Free(t)
  /\ tasks' = [tasks EXCEPT ![t] =
       Submit(NewCall("locate", None), << Cmd("set_resetpos", <<1>>) >>)]
  /\ UNCHANGED <<vacuum_state, _available, _last_clean_point, loop, upd>>

async_send_command(t, command, params) ==
  /\ Free(t)
  /\ tasks' = [tasks EXCEPT ![t] =
       Submit(NewCall("send_command", None), << Cmd(command, params) >>)]
  /\ UNCHANGED <<vacuum_state, _available, _last_clean_point, loop, upd>>

(* variant of async_clean_zone: a zone cleaning drops the cached point *)
async_clean_zone_resetting(t, zone, repeats) ==
  /\ Free(t)
  /\ _last_clean_point' = None
  /\ tasks' = [tasks EXCEPT ![t] =
       Submit(NewCall("clean_zone", [zone |-> zone, repeats |-> repeats]),
              CleanZoneCommands(zone, repeats))]
  /\ UNCHANGED <<vacuum_state, _available, loop, upd>>

(* async_clean_zone up to its first await *)
async_clean_zone(t, zone, repeats) ==
  /\ Free(t)
  /\ tasks' = [tasks EXCEPT ![t] =
       Submit(NewCall("clean_zone", [zone |-> zone, repeats |-> repeats]),
              CleanZoneCommands(zone, repeats))]
  /\ UNCHANGED <<vacuum_state, _available, _last_clean_point, loop, upd>>

(* variant of async_clean_point: the point is not cached *)
async_clean_point_uncached(t, point) ==
  /\ Free(t)
  /\ tasks' = [tasks EXCEPT ![t] =
       Submit(NewCall("clean_point", point), CleanPointCommands(point))]
  /\ UNCHANGED <<vacuum_state, _available, _last_clean_point, loop, upd>>

(* async_clean_point up to its first await *)
async_clean_point(t, point) ==
  /\ Free(t)
  /\ _last_clean_point' = point
  /\ tasks' = [tasks EXCEPT ![t] =
       Submit(NewCall("clean_point", point), CleanPointCommands(point))]
  /\ UNCHANGED <<vacuum_state, _available, loop, upd>>

(* the executor job of the outstanding raw command ends with outcome and    *)
(* the coroutine resumes in _try_command: it returns True or False, or the  *)
(* exception goes through; on True the chain goes on with its next command  *)
_try_command(t, outcome) ==
  /\ loop = "free"
  /\ tasks[t].pc = "wait"
  /\ LET r == TryCommand(outcome)
         tk == tasks[t]
     IN tasks' = [tasks EXCEPT ![t] =
          IF r = "raise" THEN Raise(tk, outcome)
          ELSE LET got == [tk EXCEPT !.rets = Append(tk.rets, r = "True")]
               IN IF AndChain(r = "True", tk.todo)
                    THEN Submit(got, tk.todo)
                    ELSE [got EXCEPT !.pc = "done", !.res = "None"]]
  /\ UNCHANGED <<vacuum_state, _available, _last_clean_point, loop, upd>>

-----------------------------------------------------------------------------
(* The properties read from the cached snapshot, each one synchronous       *)
(* segment on the event loop                                                *)

(* a property read that found entry in the snapshot and returns what value *)
(* holds: None, or << the value >>                                         *)
Returned(op, entry, value) ==
  [NewCall(op, <<entry>>) EXCEPT !.pc = "done", !.val = value,
                                !.res = IF value = None THEN "None" ELSE "value"]

(* a property read without a snapshot falls off the end and returns None *)
ReturnedNone(op) == [NewCall(op, None) EXCEPT !.pc = "done", !.res = "None"]

(* the state property *)
state_property(t) ==
  /\ Free(t)
  /\ tasks' = [tasks EXCEPT ![t] =
       IF vacuum_state = None THEN ReturnedNone("state")
       ELSE Returned("state", Snapshot["run_state"],
                     StateLookup(STATE_CODE_TO_STATE, Snapshot["run_state"]))]
  /\ UNCHANGED <<vacuum_state, _available, _last_clean_point, loop, upd>>

(* the state property of the legacy variant: the same code over its own    *)
(* table                                                                    *)
legacy_state_property(t) ==
  /\ Free(t)
  /\ tasks' = [tasks EXCEPT ![t] =
       IF vacuum_state = None THEN ReturnedNone("legacy_state")
       ELSE Returned("legacy_state", Snapshot["run_state"],
                     StateLookup(legacy_STATE_CODE_TO_STATE, Snapshot["run_state"]))]
  /\ UNCHANGED <<vacuum_state, _available, _last_clean_point, loop, upd>>

(* the fan_speed property *)
fan_speed_property(t) ==
  /\ Free(t)
  /\ tasks' = [tasks EXCEPT ![t] =
       IF vacuum_state = None THEN ReturnedNone("fan_speed")
       ELSE Returned("fan_speed", Snapshot["suction_grade"],
                     << FanSpeedDecode(Snapshot["suction_grade"]) >>)]
  /\ UNCHANGED <<vacuum_state, _available, _last_clean_point, loop, upd>>

-----------------------------------------------------------------------------
(* The command coroutines of the legacy variant (vacuum.py at the top       *)
(* level): none of them reads self.vacuum_state                             *)

(* variant of legacy_async_pause: the pause action code of the mode-aware  *)
(* variant                                                                  *)
legacy_async_pause_code3(t) ==
  /\ Free(t)
  /\ tasks' = [tasks EXCEPT ![t] =
       Submit(NewCall("legacy_pause", None), << Cmd("set_mode_withroom", <<0, 3, 0>>) >>)]
  /\ UNCHANGED <<vacuum_state, _available, _last_clean_point, loop, upd>>

legacy_async_start(t) ==
  /\ Free(t)
  /\ tasks' = [tasks EXCEPT ![t] =
       Submit(NewCall("legacy_start", None), << Cmd("set_mode_withroom", <<0, 1, 0>>) >>)]
  /\ UNCHANGED <<vacuum_state, _available, _last_clean_point, loop, upd>>

legacy_async_pause(t) ==
  /\ Free(t)
  /\ tasks' = [tasks EXCEPT ![t] =
       Submit(NewCall("legacy_pause", None), << Cmd("set_mode_withroom", <<0, 2, 0>>) >>)]
  /\ UNCHANGED <<vacuum_state, _available, _last_clean_point, loop, upd>>

legacy_async_stop(t) ==
  /\ Free(t)
  /\ tasks' = [tasks EXCEPT ![t] =
       Submit(NewCall("legacy_stop", None), << Cmd("set_mode", <<0>>) >>)]
  /\ UNCHANGED <<vacuum_state, _available, _last_clean_point, loop, upd>>

legacy_async_return_to_base(t) ==
  /\ Free(t)
  /\ tasks' = [tasks EXCEPT ![t] =
       Submit(NewCall("legacy_return_to_base", None), << Cmd("set_charge", <<1>>) >>)]
  /\ UNCHANGED <<vacuum_state, _available, _last_clean_point, loop, upd>>

legacy_async_locate(t) ==
  /\ Free(t)
  /\ tasks' = [tasks EXCEPT ![t] =
       Submit(NewCall("legacy_locate", None), << Cmd("set_resetpos", <<1>>) >>)]
  /\ UNCHANGED <<vacuum_state, _available, _last_clean_point, loop, upd>>

-----------------------------------------------------------------------------
(* update(), on an executor thread.  upd is idle before the first call,     *)
(* query while get_prop is outstanding, assigned between the two            *)
(* assignments, and afterwards tells how the last call ended: ok, caught   *)
(* (a fault was caught and logged), or raised                               *)

(* variant of update_call: the device counts as available once it is asked *)
update_call_optimistic ==
  /\ upd \notin {"query", "assigned"}
  /\ upd' = "query"
  /\ _available' = TRUE
  /\ UNCHANGED <<vacuum_state, _last_clean_point, tasks, loop>>

(* update() is called and sends get_prop *)
update_call ==
  /\ upd \notin {"query", "assigned"}
  /\ upd' = "query"
  /\ UNCHANGED <<vacuum_state, _available, _last_clean_point, tasks, loop>>

(* get_prop answers: self.vacuum_state = dict(zip(ALL_PROPS, state)) *)
update_assign(state) ==
  /\ upd = "query"
  /\ vacuum_state' = << DictZip(ALL_PROPS, state) >>
  /\ upd' = "assigned"
  /\ UNCHANGED <<_available, _last_clean_point, tasks, loop>>

(* self._available = True, and update() returns *)
update_available ==
  /\ upd = "assigned"
  /\ _available' = TRUE
  /\ upd' = "ok"
  /\ UNCHANGED <<vacuum_state, _last_clean_point, tasks, loop>>

(* the except clauses of update(): the faults it catches and logs *)
UpdateCatches(fault) == fault \in {"OSError", "DeviceException"}

(* variant of update_except: a failed poll drops the cached snapshot *)
update_except_reset(fault) ==
  /\ upd = "query"
  /\ upd' = IF UpdateCatches(fault) THEN "caught" ELSE "raised"
  /\ vacuum_state' = None
  /\ UNCHANGED <<_available, _last_clean_point, tasks, loop>>

(* get_prop fails with fault: the fault is logged and update() returns *)
update_except(fault) ==
  /\ upd = "query"
  /\ upd' = IF UpdateCatches(fault) THEN "caught" ELSE "raised"
  /\ UNCHANGED <<vacuum_state, _available, _last_clean_point, tasks, loop>>

update ==
  \/ update_call
  \/ \E state \in DeviceStates : update_assign(state)
  \/ update_available
  \/ \E fault \in Outcomes \ {"ok"} : update_except(fault)

-----------------------------------------------------------------------------

Next ==
  \/ async_start("entity")
  \/ async_pause("entity")
  \/ async_stop("entity")
  \/ \E f \in FanInputs : async_set_fan_speed("entity", f)
  \/ async_return_to_base("entity")
  \/ async_locate("entity")
  \/ \E c \in RawInputs : async_send_command("entity", c.command, c.params)
  \/ \E z \in ZoneInputs, r \in 1..MaxRepeats : async_clean_zone("service", z, r)
  \/ \E p \in Points : async_clean_point("service", p)
  \/ \E t \in Tasks, outcome \in Outcomes : _try_command(t, outcome)
  \/ update

Spec == Init /\ [][Next]_vars

(* the property reads and the fan speed encoding, over the run_state and   *)
(* suction_grade values the device reports                                  *)
NextRead ==
  \/ state_property("reader")
  \/ legacy_state_property("reader")
  \/ fan_speed_property("reader")
  \/ \E f \in FanCodecInputs : async_set_fan_speed("entity", f)
  \/ \E outcome \in Outcomes : _try_command("entity", outcome)
  \/ update_call
  \/ \E state \in DeviceReports : update_assign(state)
  \/ update_available
  \/ \E fault \in Outcomes \ {"ok"} : update_except(fault)

SpecRead == Init /\ [][NextRead]_vars

(* the legacy variant: its command coroutines, with the update() and the   *)
(* _try_command it shares line by line with the mode-aware variant          *)
NextLegacy ==
  \/ legacy_async_start("entity")
  \/ legacy_async_pause("entity")
  \/ legacy_async_stop("entity")
  \/ legacy_async_return_to_base("entity")
  \/ legacy_async_locate("entity")
  \/ \E outcome \in Outcomes : _try_command("entity", outcome)
  \/ update

SpecLegacy == Init /\ [][NextLegacy]_vars

-----------------------------------------------------------------------------
(* Properties *)

(* a call begins in slot t with this step and suspends on its first command *)
BeginsAndSends(t, op) ==
  /\ tasks[t].pc \in {"idle", "done"}
  /\ tasks'[t].pc = "wait"
  /\ tasks'[t].op = op

(* the first step of the call in slot t has failed: _try_command returned *)
(* False for it, or its exception ended the call                          *)
FirstStepFailed(t) ==
  \/ Len(tasks[t].rets) >= 1 /\ tasks[t].rets[1] = FALSE
  \/ tasks[t].pc = "done" /\ tasks[t].rets = <<>> /\ tasks[t].res = "OSError"

ZoneChain == <<"set_uploadmap", "set_zone", "set_mode">>

(* C1: a clean_zone call sends set_uploadmap [1], set_zone [count,        *)
(* entries...], set_mode [3, 1] in this order, each step only after the    *)
(* previous step of the call returned True; after a failed step nothing    *)
(* more is sent                                                            *)
C1_CleanZoneOrder ==
  \A t \in Tasks : tasks[t].op = "clean_zone" =>
    LET tk == tasks[t]
        n == Len(tk.sent)
    IN /\ n \in 1..3
       /\ \A k \in 1..n : tk.sent[k].method = ZoneChain[k]
       /\ tk.sent[1].params = <<1>>
       /\ n >= 2 => tk.sent[2].params[1] = Len(tk.sent[2].params) - 1
       /\ n >= 3 => tk.sent[3].params = <<3, 1>>
       /\ Len(tk.rets) \in {n - 1, n}
       /\ \A k \in 1..Len(tk.rets) : k < n => tk.rets[k] = TRUE
       /\ tk.pc = "done" /\ tk.res = "OSError" => Len(tk.rets) = n - 1

(* C1 witness: set_zone failed after set_uploadmap succeeded, and the call *)
(* ended with two commands sent                                            *)
C1_Witness ==
  /\ tasks["service"].op = "clean_zone"
  /\ tasks["service"].pc = "done"
  /\ tasks["service"].rets = <<TRUE, FALSE>>
  /\ Len(tasks["service"].sent) = 2

(* C2: a clean_point(point) call caches point when it begins, whatever was *)
(* cached before; no later step of the call changes the cached point; and  *)
(* when set_uploadmap [0] fails the call ends with set_pointclean unsent   *)
C2_CleanPointCachesOnFailure ==
  [][\A t \in Tasks :
       /\ BeginsAndSends(t, "clean_point") =>
            /\ _last_clean_point' = tasks'[t].arg
            /\ tasks'[t].sent = << Cmd("set_uploadmap", <<0>>) >>
       /\ (tasks[t].op = "clean_point" /\ tasks[t].pc = "wait" /\ tasks'[t].pc # "wait") =>
            _last_clean_point' = _last_clean_point
       /\ (tasks'[t].op = "clean_point" /\ FirstStepFailed(t)') =>
            /\ tasks'[t].pc = "done"
            /\ Len(tasks'[t].sent) = 1
    ]_vars

(* C2 witness: set_uploadmap [0] failed, the call is over, and the cached  *)
(* point is the attempted one                                              *)
C2_Witness ==
  /\ tasks["service"].op = "clean_point"
  /\ tasks["service"].pc = "done"
  /\ tasks["service"].rets = <<FALSE>>
  /\ tasks["service"].sent = << Cmd("set_uploadmap", <<0>>) >>
  /\ _last_clean_point = tasks["service"].arg

(* C3: after an update() that failed, the availability flag is false *)
C3_FailedRefreshUnavailable ==
  upd = "caught" => _available = FALSE

(* C4: an update() whose get_prop fails returns without raising and leaves *)
(* the cached snapshot as it was; one whose get_prop answers replaces the  *)
(* snapshot by the answer, property by property                            *)
C4_RefreshFrame ==
  [][/\ (upd = "query" /\ upd' \notin {"query", "assigned"}) =>
          /\ upd' = "caught"
          /\ vacuum_state' = vacuum_state
     /\ (upd = "query" /\ upd' = "assigned") =>
          /\ vacuum_state' # None
          /\ DOMAIN vacuum_state'[1] = { ALL_PROPS[i] : i \in 1..Len(ALL_PROPS) }
          /\ \E state \in DeviceStates :
               \A i \in 1..Len(ALL_PROPS) : vacuum_state'[1][ALL_PROPS[i]] = state[i]
    ]_vars

(* C4 witness: a poll failed after an earlier one had succeeded, and the   *)
(* snapshot is still cached                                                *)
C4_Witness ==
  /\ upd = "caught"
  /\ vacuum_state # None
  /\ _available

(* C5: a start that read mode 4 while a point (px, py) is cached sends     *)
(* exactly set_pointclean [1, px, py]; a stop under mode 4 sends           *)
(* set_pointclean [0, 0, 0] and clears the cached point; a start that read *)
(* mode 4 while no point is cached does not send set_pointclean; and only  *)
(* a clean_point call caches a point again                                 *)
C5_PointCleanCycle ==
  [][/\ \A t \in Tasks :
          /\ (tasks[t].op = "start" /\ tasks[t].pc = "read" /\ tasks'[t].pc # "read"
                /\ tasks[t].mode = 4) =>
               IF _last_clean_point # None
                 THEN tasks'[t].sent =
                        << Cmd("set_pointclean", <<1, _last_clean_point[1], _last_clean_point[2]>>) >>
                 ELSE /\ Len(tasks'[t].sent) = 1
                      /\ tasks'[t].sent[1].method = "set_mode_withroom"
          /\ (BeginsAndSends(t, "stop") /\ Snapshot["mode"] = 4) =>
               /\ tasks'[t].sent = << Cmd("set_pointclean", <<0, 0, 0>>) >>
               /\ _last_clean_point' = None
     /\ (_last_clean_point = None /\ _last_clean_point' # None) =>
          \E t \in Tasks : BeginsAndSends(t, "clean_point")
    ]_vars

(* C5 witness: a point had been cached by clean_point, a stop has cleared  *)
(* it, and the start issued afterwards under mode 4 took the room branch   *)
C5_Witness ==
  /\ tasks["service"].op = "clean_point"
  /\ tasks["service"].pc = "done"
  /\ _last_clean_point = None
  /\ tasks["entity"].op = "start"
  /\ tasks["entity"].mode = 4
  /\ Len(tasks["entity"].sent) = 1
  /\ tasks["entity"].sent[1].method = "set_mode_withroom"

(* the command the encoding table gives for action code a *)
TableCommand(a, mode, is_mop, point) ==
  CASE mode = 4 /\ point # None -> Cmd("set_pointclean", <<a, point[1], point[2]>>)
    [] mode = 3 /\ ~(mode = 4 /\ point # None) -> Cmd("set_mode", <<3, a>>)
    [] OTHER -> Cmd("set_mode_withroom",
                    << (CASE mode = 2 -> 2 [] mode # 2 /\ is_mop = 2 -> 3 [] OTHER -> is_mop),
                       a, 0 >>)

ActionCode(op) == IF op = "start" THEN 1 ELSE 3

(* C6: a start (action code 1) or pause (action code 3) that has read mode *)
(* and is_mop from the snapshot sends exactly one raw command, the one the *)
(* encoding table gives for them and the cached point                      *)
C6_StartPauseTable ==
  [][\A t \in Tasks :
       /\ (tasks[t].op \in {"start", "pause"} /\ tasks[t].pc = "read" /\ tasks'[t].pc # "read") =>
            /\ tasks'[t].pc = "wait"
            /\ tasks'[t].sent =
                 << TableCommand(ActionCode(tasks[t].op), tasks[t].mode,
                                 Snapshot["is_mop"], _last_clean_point) >>
       /\ (tasks[t].op \in {"start", "pause"} /\ tasks'[t].op = tasks[t].op
             /\ tasks[t].pc = "wait") =>
            tasks'[t].sent = tasks[t].sent
    ]_vars

(* C6 witness: with mode 0 and is_mop 2, start has sent                    *)
(* set_mode_withroom [3, 1, 0], and the call is over                       *)
C6_Witness ==
  /\ tasks["entity"].op = "start"
  /\ tasks["entity"].pc = "done"
  /\ tasks["entity"].mode = 0
  /\ tasks["entity"].sent = << Cmd("set_mode_withroom", <<3, 1, 0>>) >>

(* C7: no command operation ends by raising a fault of its raw command *)
C7_NoFaultPropagates ==
  \A t \in Tasks : tasks[t].pc = "done" => tasks[t].res \notin {"OSError", "DeviceException"}

(* C8: at most one raw command is outstanding at the device *)
C8_OneOutstanding ==
  Cardinality({ t \in Tasks : tasks[t].pc = "wait" }) <= 1

(* C9: while no snapshot is cached, every start, pause and stop call has   *)
(* ended at once by raising, with no raw command sent                      *)
C9_FailFastWithoutSnapshot ==
  vacuum_state = None =>
    \A t \in Tasks : tasks[t].op \in {"start", "pause", "stop"} =>
      /\ tasks[t].pc = "done"
      /\ tasks[t].sent = <<>>
      /\ tasks[t].res = "TypeError"

(* C9 witness: a stop called before the first successful poll has raised *)
C9_Witness ==
  /\ vacuum_state = None
  /\ tasks["entity"].op = "stop"
  /\ tasks["entity"].res = "TypeError"

(* C10: a finished operation has returned True when every raw command it   *)
(* sent succeeded, and False when one failed                               *)
C10_BooleanOutcome ==
  \A t \in Tasks : (tasks[t].pc = "done" /\ tasks[t].sent # <<>>) =>
    tasks[t].res =
      (IF Len(tasks[t].rets) = Len(tasks[t].sent) /\ \A k \in 1..Len(tasks[t].rets) : tasks[t].rets[k]
         THEN "True" ELSE "False")

(* the payload with one entry per zone and repeat, the k-th entry (from 0) *)
(* carrying the index k                                                    *)
IndexedZonePayload(zone, repeats) ==
  LET n == Len(zone) * repeats
  IN <<n>> \o [k \in 1..n |-> ZoneEntry(k - 1, zone[((k - 1) \div repeats) + 1])]

(* C11: the set_zone payload of clean_zone(zone, repeats) is the count      *)
(* n = |zone| * repeats followed by n entries, the k-th entry being the     *)
(* underscore-joined k, 0, x1, y1, x1, y2, x2, y2, x2, y1 of its zone       *)
C11_ZonePayloadIndexed ==
  \A t \in Tasks : (tasks[t].op = "clean_zone" /\ Len(tasks[t].sent) >= 2) =>
    tasks[t].sent[2].params =
      IndexedZonePayload(tasks[t].arg.zone, tasks[t].arg.repeats)

(* the decoding tables as the claim states them: << run state >> for a     *)
(* code of the table, None (no known state) for any other code             *)
ModeAwareRunState(code) ==
  CASE code \in {0, 1} -> <<"idle">>
    [] code = 2 -> <<"paused">>
    [] code \in {3, 6, 7} -> <<"cleaning">>
    [] code = 4 -> <<"returning">>
    [] code = 5 -> <<"docked">>
    [] OTHER -> None

LegacyRunState(code) ==
  CASE code \in {1, 2} -> <<"idle">>
    [] code = 3 -> <<"cleaning">>
    [] code = 4 -> <<"returning">>
    [] code = 5 -> <<"docked">>
    [] OTHER -> None

SameLetters(a, b) ==
  Len(a) = Len(b) /\ \A i \in 1..Len(a) : Lower(a[i]) = Lower(b[i])

(* C13: a set_fan_speed call whose input is a named level in any case has  *)
(* sent set_suction [the level's integer]; one whose input is an integer   *)
(* has sent set_suction [that integer]; any other input has ended the call *)
(* with no raw command sent                                                 *)
C13_FanSpeedEncoding ==
  \A t \in Tasks : tasks[t].op = "set_fan_speed" =>
    LET f == tasks[t].arg
        named == { k \in DOMAIN FAN_SPEEDS : SameLetters(k, f) }
    IN IF named # {}
         THEN \A k \in named : tasks[t].sent = << Cmd("set_suction", <<FAN_SPEEDS[k]>>) >>
         ELSE IF IntParses(f)
                THEN tasks[t].sent = << Cmd("set_suction", <<IntValue(f)>>) >>
                ELSE tasks[t].sent = <<>> /\ tasks[t].pc = "done"

(* C13 witness: set_fan_speed("ab") is over and nothing was sent *)
C13_Witness ==
  /\ tasks["entity"].op = "set_fan_speed"
  /\ tasks["entity"].arg = <<"a", "b">>
  /\ tasks["entity"].pc = "done"
  /\ tasks["entity"].sent = <<>>

(* C14: when the fan_speed property reads a snapshot whose suction_grade   *)
(* is the integer a set_fan_speed call sent, it returns the call's input   *)
(* if that was one of the four names, and the integer itself if the input  *)
(* was an integer outside 0..3 (which the call sent unchanged)             *)
C14_FanSpeedRoundTrip ==
  LET enc == tasks["entity"]
      dec == tasks["reader"]
  IN (/\ enc.op = "set_fan_speed" /\ Len(enc.sent) = 1
      /\ dec.op = "fan_speed" /\ dec.arg = << enc.sent[1].params[1] >>) =>
       /\ enc.arg \in DOMAIN FAN_SPEEDS => dec.val = << enc.arg >>
       /\ (IntParses(enc.arg) /\ IntValue(enc.arg) \notin 0..3) =>
            /\ enc.sent[1].params = << IntValue(enc.arg) >>
            /\ dec.val = dec.arg

(* C14 witness: set_fan_speed("Turbo") sent 3, the snapshot then held       *)
(* suction_grade 3, and the fan_speed property returned "Turbo"             *)
C14_Witness ==
  /\ tasks["entity"].op = "set_fan_speed"
  /\ tasks["entity"].arg = <<"T", "u", "r", "b", "o">>
  /\ tasks["entity"].sent = << Cmd("set_suction", <<3>>) >>
  /\ tasks["reader"].op = "fan_speed"
  /\ tasks["reader"].arg = <<3>>
  /\ tasks["reader"].val = << <<"T", "u", "r", "b", "o">> >>

(* C15: when start or pause encodes its command, the mode it read and the  *)
(* is_mop it reads belong to one polled snapshot: is_mop is that of the    *)
(* dict the mode was read from, or the mode is that of the dict is_mop is  *)
(* read from                                                                *)
C15_OneSnapshot ==
  [][\A t \in Tasks :
       (tasks[t].op \in {"start", "pause"} /\ tasks[t].pc = "read" /\ tasks'[t].pc # "read") =>
         \/ Snapshot["is_mop"] = tasks[t].seen[1]["is_mop"]
         \/ Snapshot["mode"] = tasks[t].mode
    ]_vars

(* C16: the cached point changes only in the step that begins a            *)
(* clean_point call, which caches that call's point, or in the step that   *)
(* begins a stop call, which clears it; every other step (update, start,   *)
(* pause, set_fan_speed, return_to_base, locate, send_command, clean_zone, *)
(* and the answer to any raw command, good or bad) leaves it as it was     *)
C16_PointRetained ==
  [][_last_clean_point' # _last_clean_point =>
       \/ \E t \in Tasks : BeginsAndSends(t, "clean_point") /\ _last_clean_point' = tasks'[t].arg
       \/ \E t \in Tasks : BeginsAndSends(t, "stop") /\ _last_clean_point' = None
    ]_vars

(* C16 witness: a point is still cached after a clean_zone call has gone   *)
(* through and a return_to_base has failed                                  *)
C16_Witness ==
  /\ _last_clean_point = <<150, 200>>
  /\ tasks["service"].op = "clean_zone"
  /\ tasks["service"].pc = "done"
  /\ Len(tasks["service"].sent) = 3
  /\ tasks["entity"].op = "return_to_base"
  /\ tasks["entity"].rets = <<FALSE>>
  /\ upd = "ok"

(* C17: a new instance is unavailable and has neither snapshot nor point;  *)
(* the availability flag turns true only in the step that ends a           *)
(* successful update(); and whenever it is true a snapshot is cached       *)
C17_AvailableAfterRefresh ==
  /\ (~_available /\ vacuum_state = None /\ _last_clean_point = None)
  /\ [](_available => vacuum_state # None)
  /\ [][_available' # _available =>
          (_available' /\ upd = "assigned" /\ upd' = "ok")]_vars

(* C17 witness: the first update() has just succeeded *)
C17_Witness ==
  /\ _available
  /\ vacuum_state # None
  /\ upd = "ok"
  /\ \A t \in Tasks : tasks[t].pc = "idle"

(* the fixed raw command of each legacy operation, as the claim lists them *)
LegacyCommand(op) ==
  CASE op = "legacy_start" -> Cmd("set_mode_withroom", <<0, 1, 0>>)
    [] op = "legacy_pause" -> Cmd("set_mode_withroom", <<0, 2, 0>>)
    [] op = "legacy_stop" -> Cmd("set_mode", <<0>>)
    [] op = "legacy_return_to_base" -> Cmd("set_charge", <<1>>)
    [] op = "legacy_locate" -> Cmd("set_resetpos", <<1>>)

(* C18: in the legacy variant a start, pause, stop, return_to_base or      *)
(* locate call sends exactly one raw command, the fixed one of the         *)
(* operation, whatever the snapshot holds and also when there is none      *)
C18_LegacyFixedCommands ==
  \A t \in Tasks : tasks[t].op # "none" =>
    /\ tasks[t].pc \in {"wait", "done"}
    /\ tasks[t].sent = << LegacyCommand(tasks[t].op) >>

(* C18 witness: without any snapshot, legacy start has sent                *)
(* set_mode_withroom [0, 1, 0]                                              *)
C18_Witness ==
  /\ vacuum_state = None
  /\ tasks["entity"].op = "legacy_start"
  /\ tasks["entity"].sent = << Cmd("set_mode_withroom", <<0, 1, 0>>) >>

(* C19: the step that begins a stop under mode 4 clears the cached point   *)
(* while set_pointclean [0, 0, 0] is only on its way; the answer to that   *)
(* command, good or bad, leaves the point as it is; and a start that read  *)
(* mode 4 while no point is cached sends the room-cleaning command         *)
C19_StopClearsBeforeAnswer ==
  [][\A t \in Tasks :
       /\ (BeginsAndSends(t, "stop") /\ Snapshot["mode"] = 4) =>
            /\ _last_clean_point' = None
            /\ tasks'[t].sent = << Cmd("set_pointclean", <<0, 0, 0>>) >>
            /\ tasks'[t].rets = <<>>
       /\ (tasks[t].op = "stop" /\ tasks[t].pc = "wait" /\ tasks'[t].pc = "done") =>
            _last_clean_point' = _last_clean_point
       /\ (tasks[t].op = "start" /\ tasks[t].pc = "read" /\ tasks'[t].pc # "read"
             /\ tasks[t].mode = 4 /\ _last_clean_point = None) =>
            /\ Len(tasks'[t].sent) = 1
            /\ tasks'[t].sent[1].method = "set_mode_withroom"
            /\ tasks'[t].sent[1].params[2] = 1
    ]_vars

(* C19 witness: clean_point went through, the stop under mode 4 was        *)
(* refused by the device, and no point is cached                            *)
C19_Witness ==
  /\ tasks["service"].op = "clean_point"
  /\ tasks["service"].rets = <<TRUE, TRUE>>
  /\ tasks["entity"].op = "stop"
  /\ tasks["entity"].mode = 4
  /\ tasks["entity"].pc = "done"
  /\ tasks["entity"].rets = <<FALSE>>
  /\ _last_clean_point = None

(* C20: the step that begins a stop under a mode other than 4 leaves the   *)
(* cached point as it is; and a start that read mode 4 while a point p is  *)
(* cached sends set_pointclean [1, p.x, p.y]                                *)
C20_StopKeepsPoint ==
  [][\A t \in Tasks :
       /\ (BeginsAndSends(t, "stop") /\ Snapshot["mode"] # 4) =>
            /\ _last_clean_point' = _last_clean_point
            /\ tasks'[t].sent[1].method = "set_mode"
       /\ (tasks[t].op = "start" /\ tasks[t].pc = "read" /\ tasks'[t].pc # "read"
             /\ tasks[t].mode = 4 /\ _last_clean_point # None) =>
            tasks'[t].sent =
              << Cmd("set_pointclean", <<1, _last_clean_point[1], _last_clean_point[2]>>) >>
    ]_vars

(* C20 witness: a stop under mode 0 is over, the point of the earlier      *)
(* clean_point is still cached, and the snapshot now reports mode 4         *)
C20_Witness ==
  /\ tasks["service"].op = "clean_point"
  /\ tasks["service"].pc = "done"
  /\ tasks["entity"].op = "stop"
  /\ tasks["entity"].mode = 0
  /\ tasks["entity"].pc = "done"
  /\ _last_clean_point = tasks["service"].arg
  /\ vacuum_state # None
  /\ Snapshot["mode"] = 4

====
